---- MODULE Spec2Model ----
(***************************************************************************)
(* Batched matrix multiplication kernel                                    *)
(* (tensorflow/core/kernels/batch_matmul_op.cc).                           *)
(*                                                                         *)
(* The module holds four state machines over one set of variables:         *)
(*   SpecCompute   BatchMatMul::Compute: validation, output allocation,    *)
(*                 the degenerate (empty) paths and the call of Launch;    *)
(*   SpecDispatch  the CPU Launch's choice of parallelisation;             *)
(*   SpecCPU       the CPU Launch on tensors of Gaussian integers, shard   *)
(*                 by shard, on a bounded thread pool;                     *)
(*   SpecGPU       the GPU Launch: stream, scratch allocator, the batched  *)
(*                 column-major GEMM and its asynchronous execution.       *)
(***************************************************************************)
EXTENDS Integers, Sequences, FiniteSets, TLC

VARIABLES
  \* ---- BatchMatMul::Compute
  in0, in1,          \* shapes of ctx->input(0), ctx->input(1)
  adj_x, adj_y,      \* the kernel's attributes adj_x_, adj_y_
  cpc,               \* position in Compute
  status,            \* the context's status (OK or the error set)
  out_shape,         \* the shape handed to allocate_output
  out_state,         \* "unallocated", "uninitialized", "zero", "written"
  launched,          \* number of calls of LaunchBatchMatMul::Launch
  \* ---- the arguments of Launch
  in_x, in_y, out,   \* 3-D shapes of in_x, in_y and *out
  is_complex,        \* Eigen::NumTraits<Scalar>::IsComplex
  Tx, Ty, Tz,        \* the tensors' elements, [batch][row][col] -> scalar
  \* ---- LaunchBatchMatMul<CPUDevice, Scalar>::Launch
  lpc,               \* position in the CPU Launch
  num_threads,       \* worker_threads.num_threads
  branch,            \* "none", "sequential", "sharded"
  parallelize_inner,
  num_outer_threads,
  shard_calls,       \* the calls of Shard, with their arguments
  shards,            \* the tasks running Kernel::Run(start, limit)
  contracted,        \* per batch index, how many contractions wrote it
  conj_done,         \* the whole-output conjugation has run
  \* ---- LaunchBatchMatMul<GPUDevice, Scalar>::Launch
  gpc,               \* position in the GPU Launch
  stream,            \* the device stream is available
  allocated_tensors_,\* CublasScratchAllocator::allocated_tensors_
  handed_out,        \* scratch buffers returned to the BLAS runtime
  live,              \* scratch buffers that are still allocated
  alloc_calls,       \* number of calls of AllocateBytes
  alloc_failed,      \* some allocate_temp failed during the call
  blas_launch_status,\* ThenBlasGemmBatchedWithScratch(...).ok()
  gemm,              \* the submitted GEMM: "none", "pending", "running", "finished"
  gemm_args,         \* the arguments of the submitted GEMM
  c_flat             \* the output buffer, row-major

computeVars == <<in0, in1, cpc, out_shape, out_state, launched>>
launchVars  == <<in_x, in_y, out, is_complex, Tx, Ty>>
cpuVars     == <<lpc, num_threads, branch, parallelize_inner,
                 num_outer_threads, shard_calls, shards, contracted,
                 conj_done, Tz>>
gpuVars     == <<gpc, stream, allocated_tensors_, handed_out, live,
                 alloc_calls, alloc_failed, blas_launch_status, gemm,
                 gemm_args, c_flat>>
vars == <<computeVars, launchVars, cpuVars, gpuVars, adj_x, adj_y, status>>

(***************************************************************************)
(* Bounds of the model.                                                    *)
(***************************************************************************)
MaxRank == 3          \* ranks of the inputs of Compute: 0..MaxRank
MaxDim == 2           \* matrix dimensions of the tensors that carry data
MaxBatch == 2         \* batch size of the tensors that carry data
MaxThreads == 3       \* size of the worker pool
MaxUnits == 3         \* batch size in the dispatcher's specification
MaxScratchAllocs == 2 \* AllocateBytes calls during one GEMM submission

Min(a, b) == IF a < b THEN a ELSE b
Max(a, b) == IF a > b THEN a ELSE b

RECURSIVE SeqsUpTo(_, _)
SeqsUpTo(S, len) ==
  IF len = 0 THEN {<<>>}
  ELSE LET shorter == SeqsUpTo(S, len - 1)
       IN  shorter \cup {Append(s, d) : s \in {t \in shorter : Len(t) = len - 1}, d \in S}

(***************************************************************************)
(* TensorShape                                                             *)
(***************************************************************************)
RECURSIVE NumElements(_)
NumElements(shape) ==
  IF shape = <<>> THEN 1 ELSE Head(shape) * NumElements(Tail(shape))

\* A Status: its code, the message's fixed text and what the message cites.
Status(code, msg, index, shapes, params) ==
  [code |-> code, msg |-> msg, index |-> index, shapes |-> shapes,
   params |-> params]

OK == Status("OK", "", -1, <<>>, <<>>)

(***************************************************************************)
(* BatchMatMul::Compute                                                    *)
(***************************************************************************)
\* A plausible slip: adj_y's swap is left out.
TrailingDimsNoSwapY(s0, s1, ax, ay) ==
  LET nd == Len(s0)
      d0 == s0[nd - 1]
      d1 == s0[nd]
  IN  [d0 |-> IF ax THEN d1 ELSE d0, d1 |-> IF ax THEN d0 ELSE d1,
       d2 |-> s1[nd - 1], d3 |-> s1[nd]]

\* The trailing dimensions d0..d3 after the adjoint swaps (std::swap).
TrailingDims(s0, s1, ax, ay) ==
  LET nd == Len(s0)
      d0 == s0[nd - 1]
      d1 == s0[nd]
      d2 == s1[nd - 1]
      d3 == s1[nd]
  IN  [d0 |-> IF ax THEN d1 ELSE d0, d1 |-> IF ax THEN d0 ELSE d1,
       d2 |-> IF ay THEN d3 ELSE d2, d3 |-> IF ay THEN d2 ELSE d3]

\* A plausible slip: the loop over the batch dimensions stops one short.
ValidationStatusShortLoop(s0, s1, ax, ay) ==
  IF Len(s0) # Len(s1)
  THEN Status("InvalidArgument", "In[0] and In[1] has different ndims", -1,
              <<s0, s1>>, <<>>)
  ELSE IF Len(s0) < 2
  THEN Status("InvalidArgument", "In[0] and In[1] ndims must be >= 2", -1,
              <<>>, <<Len(s0)>>)
  ELSE LET ndims == Len(s0)
           bad == {i \in 0..(ndims - 4) : s0[i + 1] # s1[i + 1]}
           d == TrailingDims(s0, s1, ax, ay)
       IN  IF bad # {}
           THEN Status("InvalidArgument", "In[0].dim and In[1].dim must be the same",
                       CHOOSE i \in bad : \A j \in bad : i <= j, <<s0, s1>>, <<>>)
           ELSE IF d.d1 # d.d2
           THEN Status("InvalidArgument", "In[0] mismatch In[1] shape", -1,
                       <<s0, s1>>, <<d.d1, d.d2, ax, ay>>)
           ELSE OK

\* The OP_REQUIRES checks of Compute, in the code's order: the status the
\* first failing check sets, or OK.
ValidationStatus(s0, s1, ax, ay) ==
  IF Len(s0) # Len(s1)
  THEN Status("InvalidArgument", "In[0] and In[1] has different ndims", -1,
              <<s0, s1>>, <<>>)
  ELSE IF Len(s0) < 2
  THEN Status("InvalidArgument", "In[0] and In[1] ndims must be >= 2", -1,
              <<>>, <<Len(s0)>>)
  ELSE LET ndims == Len(s0)
           bad == {i \in 0..(ndims - 3) : s0[i + 1] # s1[i + 1]}
           d == TrailingDims(s0, s1, ax, ay)
       IN  IF bad # {}
           THEN Status("InvalidArgument", "In[0].dim and In[1].dim must be the same",
                       CHOOSE i \in bad : \A j \in bad : i <= j, <<s0, s1>>, <<>>)
           ELSE IF d.d1 # d.d2
           THEN Status("InvalidArgument", "In[0] mismatch In[1] shape", -1,
                       <<s0, s1>>, <<d.d1, d.d2, ax, ay>>)
           ELSE OK

\* out_shape: the batch dimensions, then d0 and d3.
OutShape(s0, s1, ax, ay) ==
  LET d == TrailingDims(s0, s1, ax, ay)
  IN  SubSeq(s0, 1, Len(s0) - 2) \o <<d.d0, d.d3>>

\* n: the number of matrices.
BatchCount(s0) ==
  IF Len(s0) = 2 THEN 1 ELSE NumElements(SubSeq(s0, 1, Len(s0) - 2))

\* The shapes the specification's scenarios name.
ScenarioShapes ==
  {<<4, 8, 16>>, <<4, 16, 32>>, <<8, 16>>, <<32, 16>>,
   <<2, 3, 4, 5>>, <<2, 3, 4, 6>>, <<4, 5>>, <<6, 7>>}

InputShapes == SeqsUpTo(0..MaxDim, MaxRank) \cup ScenarioShapes

\* Values of the variables a specification does not use.
IdleCompute ==
  /\ in0 = <<>> /\ in1 = <<>> /\ cpc = "idle" /\ out_shape = <<>>
  /\ out_state = "unallocated" /\ launched = 0
IdleLaunchArgs ==
  /\ in_x = <<>> /\ in_y = <<>> /\ out = <<>> /\ is_complex = FALSE
  /\ Tx = <<>> /\ Ty = <<>>
IdleCPU ==
  /\ lpc = "idle" /\ num_threads = 0 /\ branch = "none"
  /\ parallelize_inner = FALSE /\ num_outer_threads = 0 /\ shard_calls = <<>>
  /\ shards = <<>> /\ contracted = <<>> /\ conj_done = FALSE /\ Tz = <<>>
IdleGPU ==
  /\ gpc = "idle" /\ stream = FALSE /\ allocated_tensors_ = <<>>
  /\ handed_out = {} /\ live = {} /\ alloc_calls = 0 /\ alloc_failed = FALSE
  /\ blas_launch_status = FALSE /\ gemm = "none" /\ gemm_args = <<>>
  /\ c_flat = <<>>

InitCompute ==
  /\ in0 \in InputShapes
  /\ in1 \in InputShapes
  /\ adj_x \in BOOLEAN
  /\ adj_y \in BOOLEAN
  /\ cpc = "start"
  /\ status = OK
  /\ out_shape = <<>>
  /\ out_state = "unallocated"
  /\ launched = 0
  /\ IdleLaunchArgs /\ IdleCPU /\ IdleGPU

\* Lines 340-376: the checks; on success out_shape is complete.
ComputeValidate ==
  /\ cpc = "start"
  /\ LET st == ValidationStatus(in0, in1, adj_x, adj_y)
     IN  IF st # OK
         THEN /\ status' = st
              /\ cpc' = "done"
              /\ UNCHANGED out_shape
         ELSE /\ out_shape' = OutShape(in0, in1, adj_x, adj_y)
              /\ cpc' = "validated"
              /\ UNCHANGED status
  /\ UNCHANGED <<in0, in1, out_state, launched, adj_x, adj_y>>
  /\ UNCHANGED <<launchVars, cpuVars, gpuVars>>

\* Lines 377-378: allocate_output, which the allocator may refuse (a tensor
\* without elements owns no buffer, so only a non-empty output is refused).
ComputeAllocate ==
  /\ cpc = "validated"
  /\ \E ok \in (IF NumElements(out_shape) = 0 THEN {TRUE} ELSE BOOLEAN) :
       IF ok
       THEN /\ out_state' = "uninitialized"
            /\ cpc' = "allocated"
            /\ UNCHANGED status
       ELSE /\ status' = Status("ResourceExhausted", "allocate_output", -1, <<>>, <<>>)
            /\ cpc' = "done"
            /\ UNCHANGED out_state
  /\ UNCHANGED <<in0, in1, out_shape, launched, adj_x, adj_y>>
  /\ UNCHANGED <<launchVars, cpuVars, gpuVars>>

\* A plausible slip: the test for an operand without elements is missing.
ComputePathNoZeroFill(oshape, s0, s1) ==
  IF NumElements(oshape) = 0 THEN "empty" ELSE "launch"

\* Lines 379-389: what Compute does with the allocated output.
ComputePath(oshape, s0, s1) ==
  IF NumElements(oshape) = 0 THEN "empty"
  ELSE IF NumElements(s0) = 0 \/ NumElements(s1) = 0 THEN "zero"
  ELSE "launch"

\* Lines 379-381: an output without elements.
ComputeReturnEmpty ==
  /\ cpc = "allocated"
  /\ ComputePath(out_shape, in0, in1) = "empty"
  /\ cpc' = "done"
  /\ UNCHANGED <<in0, in1, out_shape, out_state, launched, adj_x, adj_y, status>>
  /\ UNCHANGED <<launchVars, cpuVars, gpuVars>>

\* Lines 382-386: an operand without elements: SetZeroFunctor on the output.
ComputeSetZero ==
  /\ cpc = "allocated"
  /\ ComputePath(out_shape, in0, in1) = "zero"
  /\ out_state' = "zero"
  /\ cpc' = "done"
  /\ UNCHANGED <<in0, in1, out_shape, launched, adj_x, adj_y, status>>
  /\ UNCHANGED <<launchVars, cpuVars, gpuVars>>

\* Lines 362-367, 387-390: the views reshaped to {n, rows, cols} and the call
\* of Launch, which writes the output and, on the GPU, may set an internal
\* error.
ComputeLaunch ==
  /\ cpc = "allocated"
  /\ ComputePath(out_shape, in0, in1) = "launch"
  /\ launched' = launched + 1
  /\ in_x' = <<BatchCount(in0), in0[Len(in0) - 1], in0[Len(in0)]>>
  /\ in_y' = <<BatchCount(in0), in1[Len(in1) - 1], in1[Len(in1)]>>
  /\ out' = <<BatchCount(in0), out_shape[Len(out_shape) - 1], out_shape[Len(out_shape)]>>
  /\ out_state' = "written"
  /\ \E st \in {OK, Status("Internal", "Launch", -1, <<>>, <<>>)} : status' = st
  /\ cpc' = "done"
  /\ UNCHANGED <<in0, in1, out_shape, adj_x, adj_y>>
  /\ UNCHANGED <<is_complex, Tx, Ty, cpuVars, gpuVars>>

NextCompute ==
  \/ ComputeValidate
  \/ ComputeAllocate
  \/ ComputeReturnEmpty
  \/ ComputeSetZero
  \/ ComputeLaunch

SpecCompute == InitCompute /\ [][NextCompute]_vars

(***************************************************************************)
(* Claims about Compute (SpecCompute).                                     *)
(***************************************************************************)
\* The last two dimensions of an operand as the product uses it: swapped
\* when the operand's adjoint flag is set.
EffectiveRows(shape, adj) == IF adj THEN shape[Len(shape)] ELSE shape[Len(shape) - 1]
EffectiveCols(shape, adj) == IF adj THEN shape[Len(shape) - 1] ELSE shape[Len(shape)]

\* The four conditions under which the inputs are invalid.
InvalidArguments ==
  \/ Len(in0) # Len(in1)
  \/ Len(in0) < 2
  \/ /\ Len(in0) = Len(in1)
     /\ Len(in0) >= 2
     /\ \/ \E i \in 1..(Len(in0) - 2) : in0[i] # in1[i]
        \/ EffectiveCols(in0, adj_x) # EffectiveRows(in1, adj_y)

\* C2: once validation has passed, the shape of the output that is
\* allocated is the inputs' common batch dimensions followed by the rows of
\* the effective left operand and the columns of the effective right
\* operand, for all four flag combinations.
C2_OutputShape ==
  (cpc = "validated" \/ out_state # "unallocated") =>
    /\ SubSeq(out_shape, 1, Len(out_shape) - 2) = SubSeq(in0, 1, Len(in0) - 2)
    /\ SubSeq(out_shape, 1, Len(out_shape) - 2) = SubSeq(in1, 1, Len(in1) - 2)
    /\ Len(out_shape) = Len(in0)
    /\ out_shape[Len(out_shape) - 1] = EffectiveRows(in0, adj_x)
    /\ out_shape[Len(out_shape)] = EffectiveCols(in1, adj_y)

\* The specification's scenario: [8,16] times the adjoint of [32,16].
C2_Witness ==
  /\ in0 = <<8, 16>> /\ in1 = <<32, 16>> /\ ~adj_x /\ adj_y
  /\ out_state = "written"
  /\ out_shape = <<8, 32>>

\* C3: Compute reports an invalid-argument error exactly when the ranks
\* differ, the rank is below 2, a batch dimension differs or the effective
\* contraction dimensions differ; the error comes before the output is
\* allocated, zero-filled or written and before Launch is called.
C3_InvalidArgument ==
  /\ cpc = "start" => status = OK
  /\ cpc # "start" =>
       /\ (status.code = "InvalidArgument") <=> InvalidArguments
       /\ status.code = "InvalidArgument" =>
            /\ cpc = "done"
            /\ out_state = "unallocated"
            /\ launched = 0

\* A batch dimension differs (and nothing else is wrong).
C3_Witness ==
  /\ cpc = "done"
  /\ status.code = "InvalidArgument"
  /\ status.index = 0
  /\ Len(in0) = 3 /\ in0[1] # in1[1]
  /\ EffectiveCols(in0, adj_x) = EffectiveRows(in1, adj_y)

DegenerateInputs ==
  /\ ~InvalidArguments
  /\ \/ NumElements(OutShape(in0, in1, adj_x, adj_y)) = 0
     \/ NumElements(in0) = 0
     \/ NumElements(in1) = 0

DegenerateOutcome ==
  /\ status = OK
  /\ launched = 0
  /\ NumElements(out_shape) = 0 => out_state = "uninitialized"
  /\ NumElements(out_shape) # 0 =>
       /\ out_state = "zero"
       /\ EffectiveCols(in0, adj_x) = 0
       /\ EffectiveRows(in1, adj_y) = 0

\* C4 as stated: with valid inputs of which the output or an operand has
\* no elements, Compute ends without an error and without calling Launch;
\* an empty output is not written, a non-empty one is filled with zeros, and
\* then the contraction dimension is zero.
C4_AsStated ==
  (cpc = "done" /\ DegenerateInputs) => DegenerateOutcome

\* C4 as amended: the same, provided allocate_output succeeds; when it
\* fails Compute ends with the allocator's error (never an invalid-argument
\* error), the output is not written and Launch is not called.
C4_Degenerate ==
  (cpc = "done" /\ DegenerateInputs) =>
    /\ out_state # "unallocated" => DegenerateOutcome
    /\ out_state = "unallocated" =>
         /\ status.code = "ResourceExhausted"
         /\ launched = 0

\* An operand without elements and an output with elements: zero fill.
C4_Witness ==
  /\ cpc = "done"
  /\ DegenerateInputs
  /\ NumElements(out_shape) = 4
  /\ NumElements(in0) = 0
  /\ out_state = "zero"

(***************************************************************************)
(* Scalars: Gaussian integers <<re, im>>; a real scalar has im = 0.        *)
(***************************************************************************)
Zero == <<0, 0>>
CAdd(a, b) == <<a[1] + b[1], a[2] + b[2]>>
CMul(a, b) == <<a[1] * b[1] - a[2] * b[2], a[1] * b[2] + a[2] * b[1]>>
CConj(a) == <<a[1], 0 - a[2]>>

\* The sum f[0] + ... + f[n-1].
RECURSIVE CSum(_, _)
CSum(f, n) == IF n = 0 THEN Zero ELSE CAdd(CSum(f, n - 1), f[n - 1])

(***************************************************************************)
(* Matrices are functions [row][col], tensors functions [batch][row][col], *)
(* indexed from 0 as in the code.                                          *)
(***************************************************************************)
Dim(x, axis) ==
  IF axis = 0 THEN Cardinality(DOMAIN x) ELSE Cardinality(DOMAIN x[0])

\* x.conjugate()
MatConj(x) == [r \in DOMAIN x |-> [c \in DOMAIN x[r] |-> CConj(x[r][c])]]

\* x.contract(y, contract_pairs): the sum over axis pair[1] of x and axis
\* pair[2] of y; the result's axes are x's free axis, then y's.
Contract(x, y, pair) ==
  LET K == Dim(x, pair[1])
      X(i, k) == IF pair[1] = 1 THEN x[i][k] ELSE x[k][i]
      Y(k, j) == IF pair[2] = 0 THEN y[k][j] ELSE y[j][k]
  IN  [i \in 0..(Dim(x, 1 - pair[1]) - 1) |->
        [j \in 0..(Dim(y, 1 - pair[2]) - 1) |->
          CSum([k \in 0..(K - 1) |-> CMul(X(i, k), Y(k, j))], K)]]

\* Lines 72-81 and 125-134: the axes contracted, by (adj_x, adj_y).
ContractPairs(ax, ay) ==
  IF ~ax /\ ~ay THEN <<1, 0>>
  ELSE IF ax /\ ay THEN <<0, 1>>
  ELSE IF ~ax /\ ay THEN <<1, 1>>
  ELSE <<0, 0>>

\* A plausible slip: the right operand is conjugated whenever adj_y is set.
ConjugateRightIfAdjY(ax, ay) == ay

\* Line 86: the complex kernel conjugates the right operand when the flags
\* differ.
ConjugateRight(ax, ay) == ax # ay

\* Lines 84-100 (complex) and 137-144 (real): one iteration of Run's loop,
\* the value assigned to z = Tz.chip<0>(i).
RunUnit(cplx, x, y, ax, ay) ==
  IF cplx /\ ConjugateRight(ax, ay)
  THEN Contract(x, MatConj(y), ContractPairs(ax, ay))
  ELSE Contract(x, y, ContractPairs(ax, ay))

\* A plausible slip: Run's loop takes one index too many.
RunContinuesInclusive(i, limit) == i <= limit

\* Lines 83 and 136: the loop condition of Run.
RunContinues(i, limit) == i < limit

\* Lines 55-58 (complex) and 118 (real): Kernel::Conjugate on the whole
\* output.
Conjugate(cplx, T) ==
  IF cplx THEN [b \in DOMAIN T |-> MatConj(T[b])] ELSE T

\* Lines 203-211: what Launch does to the output after the kernel has run.
FinalOutput(cplx, T, ax) == IF ax THEN Conjugate(cplx, T) ELSE T

(***************************************************************************)
(* The dispatcher of LaunchBatchMatMul<CPUDevice, Scalar>::Launch.         *)
(***************************************************************************)
\* Line 174.
kMaxCostOuterParallelism == 128 * 256 * 256

\* Lines 169-170.
CostPerUnit(xshape, oshape) == xshape[2] * xshape[3] * oshape[3]

\* A plausible slip: the threshold itself counts as large.
UseSequentialAtThreshold(num_units, cost_per_unit, D) ==
  num_units = 1 \/ (cost_per_unit >= kMaxCostOuterParallelism /\ D > 1)

\* Lines 176-177: run the units one after the other on the calling thread.
UseSequential(num_units, cost_per_unit, D) ==
  num_units = 1 \/ (cost_per_unit > kMaxCostOuterParallelism /\ D > 1)

\* A plausible slip: the comparison with the batch size is dropped.
ParallelizeInnerAnyBatch(T, num_units, D) == D > 1

\* Lines 186-187.
ParallelizeInner(T, num_units, D) == T > num_units /\ D > 1

\* Lines 192-193.
NumOuterThreads(inner, T) == IF inner THEN Max(1, T - 1) ELSE T

\* Shard(max_parallelism, workers, total, cost_per_unit, work): the
\* contiguous blocks [start, limit) of [0, total) it may hand to work, as a
\* sequence; at most max_parallelism blocks, of equal size but the last.
ShardBlocks(max_parallelism, total) ==
  {LET block == (total + k - 1) \div k
       used == (total + block - 1) \div block
   IN  [j \in 1..used |->
         [start |-> (j - 1) * block, limit |-> Min(j * block, total)]]
   : k \in 1..Max(1, Min(max_parallelism, total))}

\* A task that runs Kernel::Run(start, limit): `i` is Run's loop variable,
\* `inner` the state of the work the contraction hands to the thread pool.
Task(start, limit, on_pool) ==
  [start |-> start, limit |-> limit, i |-> start, st |-> "queued",
   inner |-> "none", on_pool |-> on_pool]

(***************************************************************************)
(* LaunchBatchMatMul<CPUDevice, Scalar>::Launch on a pool of num_threads   *)
(* workers.                                                                *)
(***************************************************************************)
\* The elements of the input tensors: one tensor per seed, with entries
\* that differ along every axis and, for a complex scalar, have imaginary
\* parts of both signs.
Seeds == {0, 1}
XEntry(seed, cplx, b, r, c) ==
  <<(seed + b + 2 * r + c) % 3,
    IF cplx THEN (((seed + 1) * (r + 1) + 2 * c + b) % 3) - 1 ELSE 0>>
YEntry(seed, cplx, b, r, c) ==
  <<((2 * seed + 2 * b + r + 2 * c + 1) % 3) - 1,
    IF cplx THEN ((seed + b + 2 * r + (seed + 1) * c + 1) % 3) - 1 ELSE 0>>

TensorX(shape, seed, cplx) ==
  [b \in 0..(shape[1] - 1) |-> [r \in 0..(shape[2] - 1) |->
    [c \in 0..(shape[3] - 1) |-> XEntry(seed, cplx, b, r, c)]]]
TensorY(shape, seed, cplx) ==
  [b \in 0..(shape[1] - 1) |-> [r \in 0..(shape[2] - 1) |->
    [c \in 0..(shape[3] - 1) |-> YEntry(seed, cplx, b, r, c)]]]

\* The output as allocate_output leaves it: no element has a value yet.
Garbage == <<99, 99>>
Uninitialized(shape) ==
  [b \in 0..(shape[1] - 1) |-> [r \in 0..(shape[2] - 1) |->
    [c \in 0..(shape[3] - 1) |-> Garbage]]]

\* The shapes Compute hands to Launch for n matrices of m x k and k x n
\* effective dimensions.
ShapeX(N, m, k, ax) == IF ax THEN <<N, k, m>> ELSE <<N, m, k>>
ShapeY(N, k, n, ay) == IF ay THEN <<N, n, k>> ELSE <<N, k, n>>

\* The arguments of Launch: tensors of Compute's reshaped views.
LaunchArgs(N, m, k, n, sx, sy) ==
  /\ in_x = ShapeX(N, m, k, adj_x)
  /\ in_y = ShapeY(N, k, n, adj_y)
  /\ out = <<N, m, n>>
  /\ Tx = TensorX(ShapeX(N, m, k, adj_x), sx, is_complex)
  /\ Ty = TensorY(ShapeY(N, k, n, adj_y), sy, is_complex)

InitCPU ==
  /\ adj_x \in BOOLEAN
  /\ adj_y \in BOOLEAN
  /\ is_complex \in BOOLEAN
  /\ num_threads \in 1..MaxThreads
  /\ \E N \in 1..MaxBatch, m \in 1..MaxDim, k \in 1..MaxDim, n \in 1..MaxDim,
        sx \in Seeds, sy \in Seeds :
       /\ LaunchArgs(N, m, k, n, sx, sy)
       /\ Tz = Uninitialized(<<N, m, n>>)
       /\ contracted = [i \in 0..(N - 1) |-> <<>>]
  /\ lpc = "entry"
  /\ branch = "none"
  /\ parallelize_inner = TRUE
  /\ num_outer_threads = 0
  /\ shard_calls = <<>>
  /\ shards = <<>>
  /\ conj_done = FALSE
  /\ status = OK
  /\ IdleCompute /\ IdleGPU

\* Pool workers that are running a shard.
PoolBusy ==
  Cardinality({s \in DOMAIN shards :
                 shards[s].on_pool /\ shards[s].st \in {"running", "contracting"}})

\* Lines 167-200: the choice between the sequential run on the calling
\* thread and the call of Shard.
LaunchDispatch ==
  /\ lpc = "entry"
  /\ LET num_units == in_x[1]
         cost_per_unit == CostPerUnit(in_x, out)
     IN  IF UseSequential(num_units, cost_per_unit, out[3])
         THEN /\ branch' = "sequential"
              /\ parallelize_inner' = TRUE
              /\ shards' = <<Task(0, num_units, FALSE)>>
              /\ UNCHANGED <<num_outer_threads, shard_calls>>
         ELSE LET inner == ParallelizeInner(num_threads, num_units, out[3])
                  outer == NumOuterThreads(inner, num_threads)
              IN  /\ branch' = "sharded"
                  /\ parallelize_inner' = inner
                  /\ num_outer_threads' = outer
                  /\ shard_calls' = Append(shard_calls,
                                            [max_parallelism |-> outer,
                                             total |-> num_units,
                                             cost_per_unit |-> cost_per_unit])
                  /\ \E blocks \in ShardBlocks(outer, num_units) :
                       shards' = [j \in DOMAIN blocks |->
                                    Task(blocks[j].start, blocks[j].limit, TRUE)]
  /\ lpc' = "running"
  /\ UNCHANGED <<num_threads, contracted, conj_done, Tz, adj_x, adj_y, status>>
  /\ UNCHANGED <<computeVars, launchVars, gpuVars>>

\* A task starts Kernel::Run: on the calling thread, or on a free worker.
ShardStart(s) ==
  /\ lpc = "running"
  /\ shards[s].st = "queued"
  /\ shards[s].on_pool => PoolBusy < num_threads
  /\ shards' = [shards EXCEPT ![s].st = "running"]
  /\ UNCHANGED <<lpc, num_threads, branch, parallelize_inner, num_outer_threads,
                 shard_calls, contracted, conj_done, Tz, adj_x, adj_y, status>>
  /\ UNCHANGED <<computeVars, launchVars, gpuVars>>

\* Lines 83-99, 136-144: the loop goes on and Contract starts writing
\* z = Tz.chip<0>(i), on thread_pool_device when parallelize_inner is set
\* (the contraction then hands work to the pool and waits for it), on
\* default_device otherwise.
ContractBegin(s) ==
  /\ lpc = "running"
  /\ shards[s].st = "running"
  /\ RunContinues(shards[s].i, shards[s].limit)
  /\ shards' = [shards EXCEPT ![s].st = "contracting",
                              ![s].inner = IF parallelize_inner THEN "queued" ELSE "none"]
  /\ UNCHANGED <<lpc, num_threads, branch, parallelize_inner, num_outer_threads,
                 shard_calls, contracted, conj_done, Tz, adj_x, adj_y, status>>
  /\ UNCHANGED <<computeVars, launchVars, gpuVars>>

\* A free worker of the pool runs the work a parallel contraction queued.
InnerRun(s) ==
  /\ lpc = "running"
  /\ shards[s].st = "contracting"
  /\ shards[s].inner = "queued"
  /\ PoolBusy < num_threads
  /\ shards' = [shards EXCEPT ![s].inner = "done"]
  /\ UNCHANGED <<lpc, num_threads, branch, parallelize_inner, num_outer_threads,
                 shard_calls, contracted, conj_done, Tz, adj_x, adj_y, status>>
  /\ UNCHANGED <<computeVars, launchVars, gpuVars>>

\* Lines 84-100, 137-144: the contraction of unit i is complete: z holds the
\* product and the loop variable advances.
ContractEnd(s) ==
  /\ lpc = "running"
  /\ shards[s].st = "contracting"
  /\ shards[s].inner \in {"none", "done"}
  /\ LET i == shards[s].i
     IN  /\ Tz' = [Tz EXCEPT ![i] = RunUnit(is_complex, Tx[i], Ty[i], adj_x, adj_y)]
         /\ contracted' = [contracted EXCEPT ![i] = Append(@, s)]
         /\ shards' = [shards EXCEPT ![s].st = "running", ![s].inner = "none",
                                     ![s].i = i + 1]
  /\ UNCHANGED <<lpc, num_threads, branch, parallelize_inner, num_outer_threads,
                 shard_calls, conj_done, adj_x, adj_y, status>>
  /\ UNCHANGED <<computeVars, launchVars, gpuVars>>

\* Lines 83, 136: the loop ends and Run returns.
ShardFinish(s) ==
  /\ lpc = "running"
  /\ shards[s].st = "running"
  /\ ~RunContinues(shards[s].i, shards[s].limit)
  /\ shards' = [shards EXCEPT ![s].st = "finished"]
  /\ UNCHANGED <<lpc, num_threads, branch, parallelize_inner, num_outer_threads,
                 shard_calls, contracted, conj_done, Tz, adj_x, adj_y, status>>
  /\ UNCHANGED <<computeVars, launchVars, gpuVars>>

\* Lines 201-212: Run, or Shard, has returned (Shard returns when every
\* block is done); the output is conjugated when adj_x is set, and Launch
\* returns.
LaunchFinish ==
  /\ lpc = "running"
  /\ \A s \in DOMAIN shards : shards[s].st = "finished"
  /\ Tz' = FinalOutput(is_complex, Tz, adj_x)
  /\ conj_done' = adj_x
  /\ lpc' = "done"
  /\ UNCHANGED <<num_threads, branch, parallelize_inner, num_outer_threads,
                 shard_calls, shards, contracted, adj_x, adj_y, status>>
  /\ UNCHANGED <<computeVars, launchVars, gpuVars>>

NextCPU ==
  \/ LaunchDispatch
  \/ \E s \in DOMAIN shards : ShardStart(s)
  \/ \E s \in DOMAIN shards : ContractBegin(s)
  \/ \E s \in DOMAIN shards : InnerRun(s)
  \/ \E s \in DOMAIN shards : ContractEnd(s)
  \/ \E s \in DOMAIN shards : ShardFinish(s)
  \/ LaunchFinish

SpecCPU == InitCPU /\ [][NextCPU]_vars

\* The scheduling of the same Launch on larger batches: 1 x 1 matrices times
\* 1 x n matrices, n = 1 (no inner parallelism) or n = 2.
InitSched ==
  /\ adj_x \in BOOLEAN
  /\ adj_y \in BOOLEAN
  /\ is_complex \in BOOLEAN
  /\ num_threads \in 1..MaxThreads
  /\ \E N \in 1..MaxUnits, n \in {1, 2} :
       /\ LaunchArgs(N, 1, 1, n, 0, 0)
       /\ Tz = Uninitialized(<<N, 1, n>>)
       /\ contracted = [i \in 0..(N - 1) |-> <<>>]
  /\ lpc = "entry"
  /\ branch = "none"
  /\ parallelize_inner = TRUE
  /\ num_outer_threads = 0
  /\ shard_calls = <<>>
  /\ shards = <<>>
  /\ conj_done = FALSE
  /\ status = OK
  /\ IdleCompute /\ IdleGPU

SpecSched == InitSched /\ [][NextCPU]_vars

\* The pool's workers and the calling thread keep running.
SpecSchedFair == SpecSched /\ WF_vars(NextCPU)

\* The dispatcher alone, on shapes around the cost threshold (the tensors'
\* elements play no part in the choice).
DispatchDims == {1, 2, 128, 129, 256}

InitDispatch ==
  /\ adj_x \in BOOLEAN
  /\ adj_y \in BOOLEAN
  /\ is_complex \in BOOLEAN
  /\ num_threads \in 1..MaxThreads
  /\ \E N \in 1..MaxUnits, m \in DispatchDims, k \in DispatchDims, n \in DispatchDims :
       /\ in_x = ShapeX(N, m, k, adj_x)
       /\ in_y = ShapeY(N, k, n, adj_y)
       /\ out = <<N, m, n>>
       /\ contracted = [i \in 0..(N - 1) |-> <<>>]
  /\ Tx = <<>> /\ Ty = <<>> /\ Tz = <<>>
  /\ lpc = "entry"
  /\ branch = "none"
  /\ parallelize_inner = TRUE
  /\ num_outer_threads = 0
  /\ shard_calls = <<>>
  /\ shards = <<>>
  /\ conj_done = FALSE
  /\ status = OK
  /\ IdleCompute /\ IdleGPU

SpecDispatch == InitDispatch /\ [][LaunchDispatch]_vars

\* What Compute guarantees of the arguments of Launch: n >= 1 matrices whose
\* dimensions, after the adjoint swaps, are m x k and k x n with m, k, n >= 1
\* (the arguments InitCPU, InitDispatch and InitGPU draw).
LaunchPrecondition ==
  launched = 1 =>
    \E N \in 1..out[1], m \in 1..out[2], k \in 1..(in_x[2] + in_x[3]), n \in 1..out[3] :
      /\ in_x = ShapeX(N, m, k, adj_x)
      /\ in_y = ShapeY(N, k, n, adj_y)
      /\ out = <<N, m, n>>

(***************************************************************************)
(* Claims about the CPU Launch.                                            *)
(***************************************************************************)
\* The adjoint (conjugate transpose) of a matrix, and the plain product.
Adjoint(M) ==
  [i \in DOMAIN M[0] |-> [j \in DOMAIN M |-> CConj(M[j][i])]]
Op(M, adj) == IF adj THEN Adjoint(M) ELSE M
MatMul(A, B) ==
  [i \in DOMAIN A |-> [j \in DOMAIN B[0] |->
    CSum([k \in DOMAIN B |-> CMul(A[i][k], B[k][j])], Cardinality(DOMAIN B))]]

\* C1: for complex inputs and each of the four flag combinations, when the
\* CPU Launch has returned every output slice is opX(X[i]) * opY(Y[i]), op
\* being the conjugate transpose when the flag is set, whichever branch
\* (sequential or sharded) ran the kernel.
C1_AdjointProduct ==
  (lpc = "done" /\ is_complex) =>
    \A i \in DOMAIN Tx : Tz[i] = MatMul(Op(Tx[i], adj_x), Op(Ty[i], adj_y))

\* Launch has returned from the sharded branch with adj_x alone set (the
\* right operand was conjugated, then the whole output), and the product
\* has an element that is not real.
C1_Witness ==
  /\ lpc = "done" /\ is_complex /\ adj_x /\ ~adj_y
  /\ branch = "sharded" /\ Len(shards) = 2
  /\ \E i \in DOMAIN Tz : \E r \in DOMAIN Tz[i] : \E c \in DOMAIN Tz[i][r] :
       Tz[i][r][c][2] # 0
  /\ \A i \in DOMAIN Tx : Tz[i] = MatMul(Adjoint(Tx[i]), Ty[i])

\* C8: the dispatcher's choice as a function of the batch size N, the cost
\* m*k*n of one unit, the output's trailing dimension D and the pool size T.
C8_Dispatch ==
  lpc # "entry" =>
    LET N == in_x[1]
        m == out[2]
        k == IF adj_x THEN in_x[2] ELSE in_x[3]
        n == out[3]
        T == num_threads
    IN  IF N = 1 \/ (m * k * n > 128 * 256 * 256 /\ n > 1)
        THEN /\ branch = "sequential"
             /\ shard_calls = <<>>
             /\ parallelize_inner
             /\ Len(shards) = 1
             /\ shards[1].start = 0 /\ shards[1].limit = N
             /\ ~shards[1].on_pool
        ELSE /\ branch = "sharded"
             /\ parallelize_inner = (T > N /\ n > 1)
             /\ num_outer_threads = IF T > N /\ n > 1 THEN Max(1, T - 1) ELSE T
             /\ Len(shard_calls) = 1
             /\ shard_calls[1].total = N
             /\ shard_calls[1].max_parallelism = num_outer_threads

\* A batch of more than one matrix whose product costs just more than the
\* threshold: sequential.
C8_Witness ==
  /\ lpc = "running"
  /\ in_x[1] = 2
  /\ CostPerUnit(in_x, out) = 128 * 256 * 256 + 256 * 256
  /\ branch = "sequential"

\* Contractions that are running.
InFlight == Cardinality({s \in DOMAIN shards : shards[s].st = "contracting"})

AllShardsFinished == \A s \in DOMAIN shards : shards[s].st = "finished"
InRange(s, i) == shards[s].start <= i /\ i < shards[s].limit

\* C10: every batch index belongs to exactly one shard and is contracted
\* exactly once, by that shard; a shard writes only slices of its range, so
\* no two tasks write the same slice at the same time; the whole-output
\* conjugation runs only after every shard has completed, and Launch
\* returns only after the shards and the conjugation.
C10_DisjointShards ==
  lpc # "entry" =>
    /\ \A i \in DOMAIN contracted :
         /\ Cardinality({s \in DOMAIN shards : InRange(s, i)}) = 1
         /\ Len(contracted[i]) <= 1
         /\ \A j \in DOMAIN contracted[i] : InRange(contracted[i][j], i)
    /\ \A s \in DOMAIN shards :
         shards[s].st = "contracting" => InRange(s, shards[s].i)
    /\ \A s, t \in DOMAIN shards :
         (s # t /\ shards[s].st = "contracting" /\ shards[t].st = "contracting")
           => shards[s].i # shards[t].i
    /\ conj_done => AllShardsFinished
    /\ lpc = "done" =>
         /\ AllShardsFinished
         /\ \A i \in DOMAIN contracted : Len(contracted[i]) = 1
         /\ conj_done = adj_x

\* Two shards are writing their slices at the same time.
C10_Witness ==
  /\ Len(shards) = 2
  /\ shards[1].st = "contracting" /\ shards[2].st = "contracting"
  /\ shards[1].i = 0 /\ shards[2].i = 1

(***************************************************************************)
(* LaunchBatchMatMul<GPUDevice, Scalar>::Launch.                           *)
(***************************************************************************)
\* Lines 263-268, 273-274: trans[adj].
Trans(cplx, adj) ==
  IF ~adj THEN "kNoTranspose"
  ELSE IF cplx THEN "kConjugateTranspose" ELSE "kTranspose"

\* Lines 269-272: m, k, n and batch_size.
GpuDims(xshape, yshape, ax, ay) ==
  [m |-> xshape[IF ax THEN 3 ELSE 2],
   k |-> xshape[IF ax THEN 2 ELSE 3],
   n |-> yshape[IF ay THEN 2 ELSE 3],
   batch_size |-> xshape[1]]

\* Lines 292-302: the per-matrix pointers, as offsets from the base pointer.
Ptrs(batch_size, stride) == [i \in 0..(batch_size - 1) |-> i * stride]

\* A plausible slip: the first operand's leading dimension ignores adj_y.
GemmArgsLdaN(cplx, ax, ay, d) ==
  [transa |-> Trans(cplx, ay), transb |-> Trans(cplx, ax),
   m |-> d.n, n |-> d.m, k |-> d.k,
   alpha |-> <<1, 0>>,
   a |-> Ptrs(d.batch_size, d.k * d.n), lda |-> d.n,
   b |-> Ptrs(d.batch_size, d.m * d.k), ldb |-> IF ax THEN d.m ELSE d.k,
   beta |-> Zero,
   c |-> Ptrs(d.batch_size, d.m * d.n), ldc |-> d.n,
   batch_count |-> d.batch_size]

\* Lines 310-316: the arguments of ThenBlasGemmBatchedWithScratch; a points
\* into in_y's buffer (b_ptrs), b into in_x's (a_ptrs), c into the output's.
GemmArgs(cplx, ax, ay, d) ==
  [transa |-> Trans(cplx, ay), transb |-> Trans(cplx, ax),
   m |-> d.n, n |-> d.m, k |-> d.k,
   alpha |-> <<1, 0>>,
   a |-> Ptrs(d.batch_size, d.k * d.n), lda |-> IF ay THEN d.k ELSE d.n,
   b |-> Ptrs(d.batch_size, d.m * d.k), ldb |-> IF ax THEN d.m ELSE d.k,
   beta |-> Zero,
   c |-> Ptrs(d.batch_size, d.m * d.n), ldc |-> d.n,
   batch_count |-> d.batch_size]

\* flat<Scalar>(): the row-major buffer of a 3-D tensor.
Flat(T, shape) ==
  [p \in 0..(shape[1] * shape[2] * shape[3] - 1) |->
    T[p \div (shape[2] * shape[3])]
     [(p % (shape[2] * shape[3])) \div shape[3]]
     [p % shape[3]]]

\* A read of device memory; outside the buffer it yields no defined value.
ReadAt(buf, p) == IF p \in DOMAIN buf THEN buf[p] ELSE Garbage

\* Element (r, c) of op(M) for the column-major matrix M at ptr with leading
\* dimension ld.
GemmElem(buf, ptr, ld, trans, r, c) ==
  LET raw == IF trans = "kNoTranspose" THEN ReadAt(buf, ptr + r + c * ld)
             ELSE ReadAt(buf, ptr + c + r * ld)
  IN  IF trans = "kConjugateTranspose" THEN CConj(raw) ELSE raw

\* The batched GEMM of the BLAS interface, column-major: for each matrix of
\* the batch, C = alpha * op(A) * op(B) + beta * C with C of m x n elements.
BlasGemmBatched(g, abuf, bbuf, cbuf) ==
  LET Value(i, r, c) ==
        CAdd(CMul(g.alpha,
                  CSum([l \in 0..(g.k - 1) |->
                          CMul(GemmElem(abuf, g.a[i], g.lda, g.transa, r, l),
                               GemmElem(bbuf, g.b[i], g.ldb, g.transb, l, c))],
                       g.k)),
             CMul(g.beta, cbuf[g.c[i] + r + c * g.ldc]))
      Cells == (0..(g.batch_count - 1)) \X (0..(g.m - 1)) \X (0..(g.n - 1))
  IN  [p \in DOMAIN cbuf |->
        LET hit == {e \in Cells : g.c[e[1]] + e[2] + e[3] * g.ldc = p}
        IN  IF hit = {} THEN cbuf[p]
            ELSE LET e == CHOOSE e \in hit : TRUE IN Value(e[1], e[2], e[3])]

\* Lines 276-277.
NoStreamStatus == Status("Internal", "No GPU stream available.", -1, <<>>, <<>>)

\* A plausible slip: the message leaves out batch_size.
LaunchFailedStatusNoBatch(xshape, yshape, d) ==
  Status("Internal", "Blas SGEMMBatched launch failed", -1,
         <<xshape, yshape>>, <<d.m, d.n, d.k>>)

\* Lines 319-322.
LaunchFailedStatus(xshape, yshape, d) ==
  Status("Internal", "Blas SGEMMBatched launch failed", -1,
         <<xshape, yshape>>, <<d.m, d.n, d.k, d.batch_size>>)

\* A plausible slip: the allocator keeps no reference to the tensor.
AllocatedTensorsDropped(tensors, temporary_memory) == tensors

\* Line 246: allocated_tensors_.push_back(temporary_memory).
AllocatedTensorsAfter(tensors, temporary_memory) ==
  Append(tensors, temporary_memory)

Elements(seq) == {seq[j] : j \in DOMAIN seq}

InitGPU ==
  /\ adj_x \in BOOLEAN
  /\ adj_y \in BOOLEAN
  /\ is_complex \in BOOLEAN
  /\ stream \in BOOLEAN
  /\ \E N \in 1..MaxBatch, m \in 1..MaxDim, k \in 1..MaxDim, n \in 1..MaxDim,
        sx \in Seeds, sy \in Seeds :
       /\ LaunchArgs(N, m, k, n, sx, sy)
       /\ c_flat = [p \in 0..(N * m * n - 1) |-> Garbage]
  /\ gpc = "entry"
  /\ allocated_tensors_ = <<>>
  /\ handed_out = {}
  /\ live = {}
  /\ alloc_calls = 0
  /\ alloc_failed = FALSE
  /\ blas_launch_status = FALSE
  /\ gemm = "none"
  /\ gemm_args = <<>>
  /\ status = OK
  /\ IdleCompute /\ IdleCPU

\* Lines 263-309: without a stream Launch fails at once; with one it builds
\* the pointer arrays, constructs the scratch allocator and calls
\* ThenBlasGemmBatchedWithScratch.
GpuLaunchBegin ==
  /\ gpc = "entry"
  /\ IF stream
     THEN /\ gpc' = "submitting"
          /\ UNCHANGED status
     ELSE /\ gpc' = "done"
          /\ status' = NoStreamStatus
  /\ UNCHANGED <<stream, allocated_tensors_, handed_out, live, alloc_calls,
                 alloc_failed, blas_launch_status, gemm, gemm_args, c_flat,
                 adj_x, adj_y>>
  /\ UNCHANGED <<computeVars, launchVars, cpuVars>>

\* Lines 234-251: the BLAS runtime asks the allocator for scratch memory.
\* allocate_temp succeeds (the tensor is kept and its memory handed out) or
\* fails (a region of no bytes is handed out, with an OK status).
AllocateBytes ==
  /\ gpc = "submitting"
  /\ alloc_calls < MaxScratchAllocs
  /\ alloc_calls' = alloc_calls + 1
  /\ \E ok \in BOOLEAN :
       IF ok
       THEN LET temporary_memory == alloc_calls + 1
                kept == AllocatedTensorsAfter(allocated_tensors_, temporary_memory)
            IN  /\ allocated_tensors_' = kept
                /\ handed_out' = handed_out \cup {temporary_memory}
                /\ live' = Elements(kept)
                /\ UNCHANGED alloc_failed
       ELSE /\ alloc_failed' = TRUE
            /\ UNCHANGED <<allocated_tensors_, handed_out, live>>
  /\ UNCHANGED <<gpc, stream, blas_launch_status, gemm, gemm_args, c_flat,
                 adj_x, adj_y, status>>
  /\ UNCHANGED <<computeVars, launchVars, cpuVars>>

\* Lines 310-317: ThenBlasGemmBatchedWithScratch returns: the GEMM is on the
\* stream, or the runtime rejected it.
GemmCallReturns ==
  /\ gpc = "submitting"
  /\ \E ok \in BOOLEAN :
       /\ blas_launch_status' = ok
       /\ IF ok
          THEN /\ gemm' = "pending"
               /\ gemm_args' = GemmArgs(is_complex, adj_x, adj_y,
                                        GpuDims(in_x, in_y, adj_x, adj_y))
          ELSE UNCHANGED <<gemm, gemm_args>>
  /\ gpc' = "submitted"
  /\ UNCHANGED <<stream, allocated_tensors_, handed_out, live, alloc_calls,
                 alloc_failed, c_flat, adj_x, adj_y, status>>
  /\ UNCHANGED <<computeVars, launchVars, cpuVars>>

\* Lines 318-324: the status of a rejected launch; Launch returns and the
\* scratch allocator, with the tensors it holds, is destroyed.
GpuLaunchReturn ==
  /\ gpc = "submitted"
  /\ status' = IF blas_launch_status THEN status
               ELSE LaunchFailedStatus(in_x, in_y, GpuDims(in_x, in_y, adj_x, adj_y))
  /\ allocated_tensors_' = <<>>
  /\ live' = {}
  /\ gpc' = "done"
  /\ UNCHANGED <<stream, handed_out, alloc_calls, alloc_failed,
                 blas_launch_status, gemm, gemm_args, c_flat, adj_x, adj_y>>
  /\ UNCHANGED <<computeVars, launchVars, cpuVars>>

\* The stream starts the GEMM it was given, at some time of its own.
GemmStart ==
  /\ gemm = "pending"
  /\ gemm' = "running"
  /\ UNCHANGED <<gpc, stream, allocated_tensors_, handed_out, live, alloc_calls,
                 alloc_failed, blas_launch_status, gemm_args, c_flat,
                 adj_x, adj_y, status>>
  /\ UNCHANGED <<computeVars, launchVars, cpuVars>>

\* The GEMM completes: the output buffer holds the products.
GemmFinish ==
  /\ gemm = "running"
  /\ gemm' = "finished"
  /\ c_flat' = BlasGemmBatched(gemm_args, Flat(Ty, in_y), Flat(Tx, in_x), c_flat)
  /\ UNCHANGED <<gpc, stream, allocated_tensors_, handed_out, live, alloc_calls,
                 alloc_failed, blas_launch_status, gemm_args, adj_x, adj_y, status>>
  /\ UNCHANGED <<computeVars, launchVars, cpuVars>>

NextGPU ==
  \/ GpuLaunchBegin
  \/ AllocateBytes
  \/ GemmCallReturns
  \/ GpuLaunchReturn
  \/ GemmStart
  \/ GemmFinish

SpecGPU == InitGPU /\ [][NextGPU]_vars

(***************************************************************************)
(* Claims about the GPU Launch.                                            *)
(***************************************************************************)
\* Lines 156-212 as a function: the output of the CPU Launch.
CpuOutput(cplx, X, Y, ax, ay) ==
  FinalOutput(cplx, [i \in DOMAIN X |-> RunUnit(cplx, X[i], Y[i], ax, ay)], ax)

\* The CPU Launch's state machine ends with that output.
CpuLaunchIsCpuOutput ==
  lpc = "done" => Tz = CpuOutput(is_complex, Tx, Ty, adj_x, adj_y)

\* C5: for every shape, batch size and flag combination, real or complex,
\* the output buffer the batched GEMM leaves is, element for element, the
\* output of the CPU Launch on the same inputs.
C5_GpuEqualsCpu ==
  gemm = "finished" =>
    c_flat = Flat(CpuOutput(is_complex, Tx, Ty, adj_x, adj_y), out)

\* Two complex products of a 1 x 2 and a 2 x 2 matrix, both adjoint.
C5_Witness ==
  /\ gemm = "finished"
  /\ is_complex /\ adj_x /\ adj_y
  /\ out = <<2, 1, 2>> /\ in_x = <<2, 2, 1>>
  /\ \E p \in DOMAIN c_flat : c_flat[p][2] # 0
  /\ c_flat = Flat(CpuOutput(is_complex, Tx, Ty, adj_x, adj_y), out)

\* C6 as stated: no scratch buffer the allocator handed out is released
\* while the GEMM is still pending or running.
C6_AsStated ==
  gemm \in {"pending", "running"} => handed_out \subseteq live

\* C6 as amended: every scratch buffer handed out stays allocated until the
\* allocator is destroyed at the end of Launch, hence during the whole of the
\* submitting call; Launch's return releases them all, whatever the state
\* of the GEMM.
C6_HeldUntilLaunchReturns ==
  /\ gpc # "done" => handed_out \subseteq live
  /\ gpc = "done" => live = {}

\* The call is over, the GEMM is on the stream and the allocator still
\* holds the two buffers it handed out.
C6_Witness ==
  /\ gpc = "submitted"
  /\ gemm = "pending"
  /\ handed_out = {1, 2}
  /\ live = {1, 2}

GemmRejected == stream /\ gpc = "done" /\ ~blas_launch_status
StreamUnavailable == ~stream /\ gpc = "done"
CarriesShapesAndParams ==
  LET d == GpuDims(in_x, in_y, adj_x, adj_y)
  IN  /\ status.shapes = <<in_x, in_y>>
      /\ status.params = <<d.m, d.n, d.k, d.batch_size>>

\* Without a stream no GEMM is submitted; a failed scratch allocation alone
\* sets no error.
NoStreamNoGemm ==
  ~stream => (gemm = "none" /\ alloc_calls = 0 /\ gpc \in {"entry", "done"})
AllocationFailureIsNoError ==
  status # OK => (StreamUnavailable \/ GemmRejected)

====
